---- MODULE Spec2Model ----
(***************************************************************************)
(* Model of src/game.py: rock-paper-scissors variants with a pluggable     *)
(* computer strategy.                                                      *)
(*                                                                         *)
(* Actions are IntEnum members.  IntEnum members compare and hash as their *)
(* integer values, so an action is modelled by its ordinal 0..4 and the    *)
(* enum class it belongs to is carried separately in action_enum.          *)
(* A Python dict is modelled as the sequence of its <<key, value>> items   *)
(* in insertion order, a Python list as a sequence.                        *)
(***************************************************************************)
EXTENDS Integers, Sequences, FiniteSets, TLC

\* ------------------------------------------------------------------------
\* Bounds of the model
\* ------------------------------------------------------------------------
MaxRounds == 4
MaxTarget == 3
MaxHist == 3
MaxValidLen == 2
MaxInputs == 3

\* ------------------------------------------------------------------------
\* Action enums
\* ------------------------------------------------------------------------
Rock == 0
Paper == 1
Scissors == 2
Lizard == 3
Spock == 4
Fire == 3
Water == 4

Action == {Rock, Paper, Scissors, Lizard, Spock}
FireWaterAction == {Rock, Paper, Scissors, Fire, Water}

\* the value of a local that has not been assigned yet
NoAction == 0 - 1

Range(s) == {s[i] : i \in 1..Len(s)}

\* ------------------------------------------------------------------------
\* Rule sets
\* ------------------------------------------------------------------------
victories_classic ==
    << <<Rock, <<Scissors>> >>,
       <<Paper, <<Rock>> >>,
       <<Scissors, <<Paper>> >> >>

victories_extended_typo ==
    << <<Scissors, <<Paper, Lizard>> >>,
       <<Paper, <<Spock, Rock>> >>,
       <<Rock, <<Scissors, Lizard>> >>,
       <<Lizard, <<Spock, Paper>> >>,
       <<Spock, <<Scissors, Paper>> >> >>

victories_extended ==
    << <<Scissors, <<Paper, Lizard>> >>,
       <<Paper, <<Spock, Rock>> >>,
       <<Rock, <<Scissors, Lizard>> >>,
       <<Lizard, <<Spock, Paper>> >>,
       <<Spock, <<Scissors, Rock>> >> >>

victories_fire_water ==
    << <<Rock, <<Scissors, Fire>> >>,
       <<Paper, <<Rock, Water>> >>,
       <<Scissors, <<Paper, Water>> >>,
       <<Fire, <<Scissors, Paper>> >>,
       <<Water, <<Fire, Rock>> >> >>

\* dict.keys(): the keys in insertion order
Keys(d) == [i \in 1..Len(d) |-> d[i][1]]

\* dict.get(k, []): the value stored under k, or the empty list
Get(d, k) ==
    IF \E i \in 1..Len(d) : d[i][1] = k
    THEN d[CHOOSE i \in 1..Len(d) : d[i][1] = k][2]
    ELSE <<>>

\* sorted(xs, key=lambda a: a.value): stable insertion sort by ordinal
RECURSIVE Insert(_, _)
Insert(x, s) ==
    IF s = <<>> THEN <<x>>
    ELSE IF x < Head(s) THEN <<x>> \o s
    ELSE <<Head(s)>> \o Insert(x, Tail(s))

RECURSIVE Sorted(_)
Sorted(xs) ==
    IF xs = <<>> THEN <<>>
    ELSE Insert(xs[Len(xs)], Sorted(SubSeq(xs, 1, Len(xs) - 1)))

get_valid_actions_unsorted(victories) == Keys(victories)

get_valid_actions(victories) == Sorted(Keys(victories))

defeats_or_equal(victories, a1, a2) ==
    a2 \in Range(Get(victories, a1)) \/ a1 = a2

defeats(victories, a1, a2) == a2 \in Range(Get(victories, a1))

\* ------------------------------------------------------------------------
\* Strategies
\* ------------------------------------------------------------------------

\* random.choice(xs): any element of the list
random_choice(xs) == Range(xs)

\* Counter(xs): the items <<element, count>> in order of first occurrence
RECURSIVE Counter(_)
Counter(xs) ==
    IF xs = <<>> THEN <<>>
    ELSE LET init == Counter(SubSeq(xs, 1, Len(xs) - 1))
             x    == xs[Len(xs)]
         IN  IF \E i \in 1..Len(init) : init[i][1] = x
             THEN [i \in 1..Len(init) |->
                     IF init[i][1] = x THEN <<x, init[i][2] + 1>> ELSE init[i]]
             ELSE Append(init, <<x, 1>>)

RECURSIVE MaxByCount_last(_, _)
MaxByCount_last(best, items) ==
    IF items = <<>> THEN best
    ELSE IF Head(items)[2] >= best[2]
         THEN MaxByCount_last(Head(items), Tail(items))
         ELSE MaxByCount_last(best, Tail(items))

\* max(items, key=count): the first item holding the largest count
RECURSIVE MaxByCount(_, _)
MaxByCount(best, items) ==
    IF items = <<>> THEN best
    ELSE IF Head(items)[2] > best[2] THEN MaxByCount(Head(items), Tail(items))
    ELSE MaxByCount(best, Tail(items))

\* Counter(xs).most_common(1)[0][0], for a non-empty xs
most_common(xs) ==
    LET items == Counter(xs) IN MaxByCount(Head(items), Tail(items))[1]

\* the for loop of PredictiveStrategy.select_action: the first action of
\* valid_actions whose entry in victories_extended holds the target, as a
\* set (empty when the loop falls through)
RECURSIVE FirstCounter(_, _)
FirstCounter(valid_actions, target) ==
    IF valid_actions = <<>> THEN {}
    ELSE IF target \in Range(Get(victories_extended, Head(valid_actions)))
         THEN {Head(valid_actions)}
         ELSE FirstCounter(Tail(valid_actions), target)

RECURSIVE FirstCounter_classic(_, _)
FirstCounter_classic(valid_actions, target) ==
    IF valid_actions = <<>> THEN {}
    ELSE IF target \in Range(Get(victories_classic, Head(valid_actions)))
         THEN {Head(valid_actions)}
         ELSE FirstCounter_classic(Tail(valid_actions), target)

RandomStrategy_select_action(valid_actions) == random_choice(valid_actions)

PredictiveStrategy_select_action_classic_table(human_moves, valid_actions) ==
    IF human_moves = <<>> THEN random_choice(valid_actions)
    ELSE LET found == FirstCounter_classic(valid_actions, most_common(human_moves))
         IN  IF found # {} THEN found ELSE random_choice(valid_actions)

PredictiveStrategy_select_action_table_keys(human_moves, valid_actions) ==
    IF human_moves = <<>> THEN random_choice(valid_actions)
    ELSE LET found == FirstCounter(Keys(victories_extended), most_common(human_moves))
         IN  IF found # {} THEN found ELSE random_choice(valid_actions)

PredictiveStrategy_select_action_reversed(human_moves, valid_actions) ==
    IF human_moves = <<>> THEN random_choice(valid_actions)
    ELSE LET mc    == most_common(human_moves)
             found == {a \in Range(valid_actions) :
                         a \in Range(Get(victories_extended, mc))}
         IN  IF found # {} THEN found ELSE random_choice(valid_actions)

\* the set of actions PredictiveStrategy.select_action may return
PredictiveStrategy_select_action(human_moves, valid_actions) ==
    IF human_moves = <<>> THEN random_choice(valid_actions)
    ELSE LET found == FirstCounter(valid_actions, most_common(human_moves))
         IN  IF found # {} THEN found ELSE random_choice(valid_actions)

\* ComputerPlayer.select_action: delegates to the strategy
ComputerPlayer_select_action(strat, human_moves, valid_actions) ==
    IF strat = "PredictiveStrategy"
    THEN PredictiveStrategy_select_action(human_moves, valid_actions)
    ELSE RandomStrategy_select_action(valid_actions)

\* HumanPlayer.select_action: the values the prompt loop can return, the
\* members of the enum that are in valid_actions
HumanPlayer_select_action(enum, valid_actions) ==
    {a \in enum : a \in Range(valid_actions)}

\* the strategy context as a record
EmptyContext == [human_moves |-> <<>>, computer_moves |-> <<>>, round_number |-> 0]

update_context_human_only(strat, ctx, h, c) ==
    IF strat = "PredictiveStrategy"
    THEN [human_moves    |-> Append(ctx.human_moves, h),
          computer_moves |-> ctx.computer_moves,
          round_number   |-> ctx.round_number + 1]
    ELSE ctx

\* AbstractStrategy.update_context (no-op) / PredictiveStrategy.update_context
update_context(strat, ctx, h, c) ==
    IF strat = "PredictiveStrategy"
    THEN [human_moves    |-> Append(ctx.human_moves, h),
          computer_moves |-> Append(ctx.computer_moves, c),
          round_number   |-> ctx.round_number + 1]
    ELSE ctx

ComputerPlayer_update_skip_tie(strat, ctx, h, c) ==
    IF h = c THEN ctx ELSE update_context(strat, ctx, h, c)

\* ComputerPlayer.update: forwards to the strategy
ComputerPlayer_update(strat, ctx, h, c) == update_context(strat, ctx, h, c)

\* the enum class of the keys and entries of a table
TableEnum(table) ==
    IF table = victories_fire_water THEN "FireWaterAction" ELSE "Action"

\* the lookups of PredictiveStrategy.select_action, each the pair of the enum
\* class of the action looked up and the enum class of the table it is looked
\* up in: the loop looks every candidate of valid_actions up in
\* victories_extended and matches most_common against the entry
select_action_lookups(strat, human_moves, valid_actions, enum) ==
    IF strat = "PredictiveStrategy" /\ human_moves # <<>> /\ valid_actions # <<>>
    THEN {<<enum, TableEnum(victories_extended)>>}
    ELSE {}

\* the lookup of RuleSet.defeats in Game.play_round, made unless the round
\* is a tie
defeats_lookups(table, enum, h, c) ==
    IF h # c THEN {<<enum, TableEnum(table)>>} ELSE {}

\* ------------------------------------------------------------------------
\* Game
\* ------------------------------------------------------------------------
HumanName == "You"
ComputerName == "Computer"

resolve_tie_to_computer(victories, sc, h, c) ==
    IF defeats(victories, h, c) THEN [sc EXCEPT ![HumanName] = @ + 1]
    ELSE [sc EXCEPT ![ComputerName] = @ + 1]

resolve_tie_to_both(victories, sc, h, c) ==
    IF h = c THEN [n \in DOMAIN sc |-> sc[n] + 1]
    ELSE IF defeats(victories, h, c) THEN [sc EXCEPT ![HumanName] = @ + 1]
    ELSE [sc EXCEPT ![ComputerName] = @ + 1]

\* the if/elif/else of Game.play_round: the scores after the round
resolve(victories, sc, h, c) ==
    IF h = c THEN sc
    ELSE IF defeats(victories, h, c) THEN [sc EXCEPT ![HumanName] = @ + 1]
    ELSE [sc EXCEPT ![ComputerName] = @ + 1]

is_game_over_strict(m, t, sc, rounds) ==
    IF m = "first_to" THEN \E n \in DOMAIN sc : sc[n] >= t
    ELSE IF m = "fixed" THEN rounds > t
    ELSE FALSE

is_game_over_all(m, t, sc, rounds) ==
    IF m = "first_to" THEN \A n \in DOMAIN sc : sc[n] >= t
    ELSE IF m = "fixed" THEN rounds >= t
    ELSE FALSE

is_game_over(m, t, sc, rounds) ==
    IF m = "first_to" THEN \E n \in DOMAIN sc : sc[n] >= t
    ELSE IF m = "fixed" THEN rounds >= t
    ELSE FALSE

VARIABLES
    victories,        \* Game.rule_set.victories
    action_enum,      \* HumanPlayer.action_enum
    strategy,         \* ComputerPlayer.strategy.name
    context,          \* ComputerPlayer.strategy.context
    mode,             \* Game.mode
    target,           \* Game.target
    rounds_played,    \* Game.rounds_played
    scores,           \* Game.scores
    valid_actions,    \* the valid_actions of the last select_action/play_round
    human_action,     \* the human_action of the last play_round
    computer_action,  \* the action the strategy returned last
    calls,            \* number of play_round calls made so far
    pc,               \* where play() stands: "loop" or "over"
    result,           \* what play() announced at the end
    lookups,          \* the table lookups of the last round / select_action
    ruleset,          \* RuleSet.__init__: "none" before, then its outcome
    prompt,           \* HumanPlayer.select_action: "idle", "asking", "returned"
    typed             \* the raw inputs read by the prompt so far

vars == <<victories, action_enum, strategy, context, mode, target,
          rounds_played, scores, valid_actions, human_action, computer_action,
          calls, pc, result, lookups, ruleset, prompt, typed>>

promptvars == <<ruleset, prompt, typed>>

\* the three game types main() offers
GameTypes ==
    { <<victories_classic, Action>>,
      <<victories_extended, Action>>,
      <<victories_fire_water, FireWaterAction>> }

Strategies == {"RandomStrategy", "PredictiveStrategy"}
Modes == {"first_to", "fixed"}

\* main() up to the construction of Game; Game.__init__
Init ==
    /\ \E g \in GameTypes : victories = g[1] /\ action_enum = g[2]
    /\ strategy \in Strategies
    /\ context = EmptyContext
    /\ mode \in Modes
    /\ target \in (0 - 1)..MaxTarget
    /\ rounds_played = 0
    /\ scores = [n \in {HumanName, ComputerName} |-> 0]
    /\ valid_actions = <<>>
    /\ human_action = NoAction
    /\ computer_action = NoAction
    /\ calls = 0
    /\ pc = "loop"
    /\ result = "None"
    /\ lookups = {}
    /\ ruleset = "constructed"
    /\ prompt = "idle"
    /\ typed = <<>>

play_round_update_first ==
    /\ calls < MaxRounds
    /\ LET va == get_valid_actions(victories) IN
       \E h \in HumanPlayer_select_action(action_enum, va) :
       \E c \in ComputerPlayer_select_action(strategy,
                     Append(context.human_moves, h), va) :
          /\ valid_actions' = va
          /\ human_action' = h
          /\ computer_action' = c
          /\ scores' = resolve(victories, scores, h, c)
          /\ context' = ComputerPlayer_update(strategy, context, h, c)
          /\ rounds_played' = rounds_played + 1
          /\ calls' = calls + 1
          /\ lookups' =
                select_action_lookups(strategy, context.human_moves, va,
                                      TableEnum(victories))
                    \cup defeats_lookups(victories, TableEnum(victories), h, c)
    /\ UNCHANGED <<victories, action_enum, strategy, mode, target>>
    /\ UNCHANGED promptvars

\* Game.play_round
play_round ==
    /\ calls < MaxRounds
    /\ LET va == get_valid_actions(victories) IN
       \E h \in HumanPlayer_select_action(action_enum, va) :
       \E c \in ComputerPlayer_select_action(strategy, context.human_moves, va) :
          /\ valid_actions' = va
          /\ human_action' = h
          /\ computer_action' = c
          /\ scores' = resolve(victories, scores, h, c)
          /\ context' = ComputerPlayer_update(strategy, context, h, c)
          /\ rounds_played' = rounds_played + 1
          /\ calls' = calls + 1
          /\ lookups' =
                select_action_lookups(strategy, context.human_moves, va,
                                      TableEnum(victories))
                    \cup defeats_lookups(victories, TableEnum(victories), h, c)
    /\ UNCHANGED <<victories, action_enum, strategy, mode, target>>
    /\ UNCHANGED promptvars

PlayLoop_unguarded ==
    /\ pc = "loop"
    /\ play_round
    /\ UNCHANGED <<pc, result>>

\* one iteration of the while loop of Game.play
PlayLoop ==
    /\ pc = "loop"
    /\ ~is_game_over(mode, target, scores, rounds_played)
    /\ play_round
    /\ UNCHANGED <<pc, result>>

\* the exit of the while loop of Game.play and the final announcement
PlayOver ==
    /\ pc = "loop"
    /\ is_game_over(mode, target, scores, rounds_played)
    /\ pc' = "over"
    /\ result' = IF scores[HumanName] > scores[ComputerName] THEN "Win"
                 ELSE IF scores[HumanName] < scores[ComputerName] THEN "Loss"
                 ELSE "Draw"
    /\ UNCHANGED <<victories, action_enum, strategy, context, mode, target,
                   rounds_played, scores, valid_actions, human_action,
                   computer_action, calls, lookups>>
    /\ UNCHANGED promptvars

\* main(): the configured game is played with Game.play
Next == PlayLoop \/ PlayOver

Spec == Init /\ [][Next]_vars

\* the shape of a step of Game.play: the announcement when the game is over,
\* one more round otherwise.  Every step of Next is an Advance step that
\* changes calls or pc, and Advance is enabled exactly when Next is.
Advance ==
    /\ pc = "loop"
    /\ IF is_game_over(mode, target, scores, rounds_played)
       THEN PlayOver
       ELSE /\ calls < MaxRounds
            /\ calls' = calls + 1
            /\ rounds_played' = rounds_played + 1
            /\ pc' = pc

\* main() with a human who answers every prompt: the loop of Game.play keeps
\* running, it is single-threaded and waits for nothing else
SpecFair == Init /\ [][Next]_vars /\ WF_<<calls, pc>>(Advance)

\* Game.play_round called directly on a constructed Game, any number of times
PlayRoundCall ==
    /\ play_round
    /\ UNCHANGED <<pc, result>>

NextRound == PlayRoundCall

SpecRound == Init /\ [][NextRound]_vars

\* ------------------------------------------------------------------------
\* select_action called directly on a strategy: the strategy, its history
\* and the valid_actions argument are drawn from bounded sets
\* ------------------------------------------------------------------------
SeqsUpTo(S, n) == UNION {[1..k -> S] : k \in 0..n}

ValidActionLists ==
    {get_valid_actions(g[1]) : g \in GameTypes}
        \cup (SeqsUpTo(Action, MaxValidLen) \ {<<>>})

InitSelect ==
    /\ victories = victories_extended
    /\ action_enum = Action
    /\ strategy \in Strategies
    /\ \E hm \in SeqsUpTo(Action, MaxHist) :
          /\ strategy = "RandomStrategy" => hm = <<>>
          /\ context = [EmptyContext EXCEPT !.human_moves = hm]
    /\ mode = "fixed"
    /\ target = 0
    /\ rounds_played = 0
    /\ scores = [n \in {HumanName, ComputerName} |-> 0]
    /\ valid_actions \in ValidActionLists
    /\ human_action = NoAction
    /\ computer_action = NoAction
    /\ calls = 0
    /\ pc = "loop"
    /\ result = "None"
    /\ lookups = {}
    /\ ruleset = "constructed"
    /\ prompt = "idle"
    /\ typed = <<>>

\* ComputerPlayer.select_action(valid_actions)
SelectCall ==
    /\ \E c \in ComputerPlayer_select_action(strategy, context.human_moves,
                                              valid_actions) :
          computer_action' = c
    /\ lookups' = select_action_lookups(strategy, context.human_moves,
                                        valid_actions, "Action")
    /\ UNCHANGED <<victories, action_enum, strategy, context, mode, target,
                   rounds_played, scores, valid_actions, human_action, calls,
                   pc, result>>
    /\ UNCHANGED promptvars

NextSelect == SelectCall

SpecSelect == InitSelect /\ [][NextSelect]_vars

\* ------------------------------------------------------------------------
\* RuleSet and HumanPlayer.select_action used directly: a RuleSet is
\* constructed from a table, its valid actions are shown and raw inputs are
\* read until one is accepted
\* ------------------------------------------------------------------------

\* what the user may type at "Enter choice: "
RawInputs ==
    {"abc", "", "1.5", "-1", "0", "1", "2", "3", "4", "5", " 2 "}

\* int(raw): <<n>> for a decimal numeral, surrounding blanks allowed, and
\* <<>> when int raises ValueError
int(raw) ==
    CASE raw = "-1" -> <<0 - 1>>
      [] raw = "0" -> <<0>>
      [] raw = "1" -> <<1>>
      [] raw = "2" -> <<2>>
      [] raw = " 2 " -> <<2>>
      [] raw = "3" -> <<3>>
      [] raw = "4" -> <<4>>
      [] raw = "5" -> <<5>>
      [] OTHER -> <<>>

\* self.action_enum(choice): <<member>> for the value of a member and <<>>
\* when the enum raises ValueError
enum_member(enum, choice) ==
    IF choice \in enum THEN <<choice>> ELSE <<>>

Retry == [kind |-> "retry", action |-> NoAction]

read_choice_unchecked(enum, valid, raw) ==
    IF int(raw) = <<>> THEN Retry
    ELSE IF enum_member(enum, int(raw)[1]) = <<>> THEN Retry
    ELSE [kind |-> "return", action |-> enum_member(enum, int(raw)[1])[1]]

\* one pass of the while loop of HumanPlayer.select_action on the input raw:
\* the exceptions of int and of the enum are caught and the loop goes on, a
\* member outside valid_actions is refused and the loop goes on, a member of
\* valid_actions is returned
read_choice(enum, valid, raw) ==
    IF int(raw) = <<>> THEN Retry
    ELSE IF enum_member(enum, int(raw)[1]) = <<>> THEN Retry
    ELSE IF enum_member(enum, int(raw)[1])[1] \in Range(valid)
         THEN [kind |-> "return", action |-> enum_member(enum, int(raw)[1])[1]]
         ELSE Retry

\* RuleSet.__init__: stores the table, whatever it is
RuleSet_init(table) == "constructed"

\* the tables a RuleSet is constructed from
Tables == {g[1] : g \in GameTypes} \cup {<<>>}

InitPrompt ==
    /\ victories \in Tables
    /\ action_enum = IF victories = victories_fire_water
                     THEN FireWaterAction ELSE Action
    /\ strategy \in Strategies
    /\ context = EmptyContext
    /\ mode = "fixed"
    /\ target = 1
    /\ rounds_played = 0
    /\ scores = [n \in {HumanName, ComputerName} |-> 0]
    /\ valid_actions = <<>>
    /\ human_action = NoAction
    /\ computer_action = NoAction
    /\ calls = 0
    /\ pc = "loop"
    /\ result = "None"
    /\ lookups = {}
    /\ ruleset = "none"
    /\ prompt = "idle"
    /\ typed = <<>>

gamevars == <<victories, action_enum, strategy, context, mode, target,
              rounds_played, scores, computer_action, calls, pc, result,
              lookups>>

\* RuleSet(victories)
ConstructRuleSet ==
    /\ ruleset = "none"
    /\ ruleset' = RuleSet_init(victories)
    /\ UNCHANGED <<gamevars, valid_actions, human_action, prompt, typed>>

\* Game.play_round up to the prompt: get_valid_actions and the menu of
\* HumanPlayer.select_action
PromptBegin ==
    /\ ruleset = "constructed"
    /\ prompt = "idle"
    /\ valid_actions' = get_valid_actions(victories)
    /\ prompt' = "asking"
    /\ UNCHANGED <<gamevars, human_action, ruleset, typed>>

\* one pass of the while loop of HumanPlayer.select_action
PromptInput ==
    /\ prompt = "asking"
    /\ Len(typed) < MaxInputs
    /\ \E raw \in RawInputs :
          LET r == read_choice(action_enum, valid_actions, raw)
          IN  /\ typed' = Append(typed, raw)
              /\ prompt' = IF r.kind = "return" THEN "returned" ELSE "asking"
              /\ human_action' = r.action
    /\ UNCHANGED <<gamevars, valid_actions, ruleset>>

NextPrompt == ConstructRuleSet \/ PromptBegin \/ PromptInput

SpecPrompt == InitPrompt /\ [][NextPrompt]_vars

\* ------------------------------------------------------------------------
\* Properties
\* ------------------------------------------------------------------------
ScoreReached == \E n \in DOMAIN scores : scores[n] >= target

\* C1: every play_round resolves to exactly one of three outcomes: equal
\* actions change no score; otherwise, if defeats(human, computer), the human
\* score grows by exactly 1 and the computer score is unchanged; otherwise
\* the computer score grows by exactly 1 and the human score is unchanged.
C1_RoundOutcome ==
    [][calls' = calls + 1 =>
        LET h == human_action'
            c == computer_action'
            beats == c \in Range(Get(victories, h))
        IN  /\ h = c => scores' = scores
            /\ (h # c /\ beats) =>
                  /\ scores'[HumanName] = scores[HumanName] + 1
                  /\ scores'[ComputerName] = scores[ComputerName]
            /\ (h # c /\ ~beats) =>
                  /\ scores'[ComputerName] = scores[ComputerName] + 1
                  /\ scores'[HumanName] = scores[HumanName]]_vars

\* three rounds played: one tie, one human win, one computer win
C1_Witness ==
    /\ calls = 3
    /\ scores[HumanName] = 1
    /\ scores[ComputerName] = 1

\* C2: in fixed mode with target T, on a fresh Game, is_game_over() is false
\* after any k < T play_round calls and true once T calls have been made,
\* whatever was played and whatever the scores are.
C2_FixedOver ==
    mode = "fixed" =>
        (is_game_over(mode, target, scores, rounds_played) <=> calls >= target)

\* fixed mode, target 3, exactly 3 rounds played, all tied
C2_Witness ==
    /\ mode = "fixed"
    /\ target = 3
    /\ calls = 3
    /\ scores[HumanName] = 0
    /\ scores[ComputerName] = 0
    /\ is_game_over(mode, target, scores, rounds_played)

\* C3: in first_to mode play() goes on exactly while no score has reached
\* the target, however many rounds were played: with a score at the target
\* the only step is the end of the game and no round is played; with no
\* score at the target a round is played and the game does not end.
C3_FirstTo ==
    [][mode = "first_to" =>
        IF ScoreReached
        THEN pc' = "over" /\ calls' = calls /\ scores' = scores
             /\ rounds_played' = rounds_played
        ELSE pc' = "loop" /\ calls' = calls + 1]_vars

\* first_to 2 ended by the human's second win in the third round
C3_Witness ==
    /\ mode = "first_to"
    /\ target = 2
    /\ pc = "over"
    /\ rounds_played = 3
    /\ scores[HumanName] = 2

AllRock(hm) == \A i \in 1..Len(hm) : hm[i] = Rock

\* C4: Classic rules, PredictiveStrategy starting with an empty history, a
\* human who always plays Rock: in round 1 the computer may select any valid
\* action; in every later round it selects Paper and its score grows by 1
\* (the human's stays).
C4_AlwaysRock ==
    [][(victories = victories_classic /\ strategy = "PredictiveStrategy") =>
        /\ context.human_moves = <<>> =>
              ComputerPlayer_select_action(strategy, context.human_moves,
                                           get_valid_actions(victories))
                  = {Rock, Paper, Scissors}
        /\ (/\ context.human_moves # <<>>
            /\ AllRock(context.human_moves)
            /\ calls' = calls + 1
            /\ human_action' = Rock) =>
              /\ computer_action' = Paper
              /\ scores'[ComputerName] = scores[ComputerName] + 1
              /\ scores'[HumanName] = scores[HumanName]]_vars

\* three rounds of Rock against the predictive computer under Classic rules
C4_Witness ==
    /\ victories = victories_classic
    /\ strategy = "PredictiveStrategy"
    /\ context.human_moves = <<Rock, Rock, Rock>>
    /\ computer_action = Paper
    /\ scores[ComputerName] >= 2

ExtendedActions == get_valid_actions(victories_extended)

\* C5 as stated: with the history [Rock, Rock, Paper] and the valid actions
\* of the Extended rules, Rock is the most frequent human action and
\* select_action returns Scissors or Lizard.
C5_Original ==
    (/\ strategy = "PredictiveStrategy"
     /\ context.human_moves = <<Rock, Rock, Paper>>
     /\ valid_actions = ExtendedActions
     /\ computer_action # NoAction) =>
        /\ most_common(context.human_moves) = Rock
        /\ computer_action \in {Scissors, Lizard}

\* C5 as amended: with the history [Rock, Rock, Paper] and the valid actions
\* of the Extended rules, Rock is the most frequent human action and
\* select_action returns Paper, the first valid action that defeats Rock in
\* the extended table (Paper and Spock defeat Rock; Scissors and Lizard are
\* defeated by it).
C5_CountersRock ==
    (/\ strategy = "PredictiveStrategy"
     /\ context.human_moves = <<Rock, Rock, Paper>>
     /\ valid_actions = ExtendedActions
     /\ computer_action # NoAction) =>
        /\ most_common(context.human_moves) = Rock
        /\ computer_action = Paper
        /\ defeats(victories_extended, computer_action, Rock)
        /\ {a \in Action : defeats(victories_extended, a, Rock)} = {Paper, Spock}

\* select_action has returned for the history [Rock, Rock, Paper]
C5_Witness ==
    /\ strategy = "PredictiveStrategy"
    /\ context.human_moves = <<Rock, Rock, Paper>>
    /\ valid_actions = ExtendedActions
    /\ computer_action = Paper

\* C6: for both strategies, every non-empty valid_actions and every history
\* (empty, counter found, no counter found), select_action returns an
\* element of the valid_actions it was given.
C6_SelectsValid ==
    computer_action # NoAction => computer_action \in Range(valid_actions)

\* the predictive strategy fell back to a random valid action: the history
\* is not empty and no valid action counters its most frequent action
C6_Witness ==
    /\ strategy = "PredictiveStrategy"
    /\ context.human_moves # <<>>
    /\ FirstCounter(valid_actions, most_common(context.human_moves)) = {}
    /\ Len(valid_actions) = 2
    /\ computer_action = valid_actions[2]

Domain(d) == Range(Keys(d))

\* C7: in each shipped rule set no action of the domain defeats itself.
C7_NoSelfDefeat ==
    \A a \in Domain(victories) : ~defeats(victories, a, a)

\* a tied round under the Fire-Water rules
C7_Witness ==
    /\ victories = victories_fire_water
    /\ calls = 1
    /\ human_action = Water
    /\ computer_action = Water
    /\ scores[HumanName] = 0
    /\ scores[ComputerName] = 0

\* C8: in each shipped rule set no two distinct actions of the domain defeat
\* each other.
C8_NoTwoCycle ==
    \A a, b \in Domain(victories) :
        a # b => ~(defeats(victories, a, b) /\ defeats(victories, b, a))

\* a round under the Extended rules that Spock won against Rock
C8_Witness ==
    /\ victories = victories_extended
    /\ calls = 1
    /\ human_action = Spock
    /\ computer_action = Rock
    /\ scores[HumanName] = 1

Ascending(s) == \A i, j \in 1..Len(s) : i < j => s[i] < s[j]

ValidActionsOk ==
    LET va == get_valid_actions(victories)
    IN  /\ Ascending(va)
        /\ Range(va) = Domain(victories)
        /\ Len(va) = Cardinality(Domain(victories))
        /\ calls > 0 => valid_actions = va

\* C9: get_valid_actions() returns every action of the domain exactly once,
\* in ascending ordinal order, the same sequence before and after any number
\* of play_round calls; play never changes the rule set.
C9_ValidActionsStable ==
    /\ []ValidActionsOk
    /\ [][victories' = victories]_vars

\* two rounds played under the Extended rules
C9_Witness ==
    /\ victories = victories_extended
    /\ calls = 2
    /\ valid_actions = <<Rock, Paper, Scissors, Lizard, Spock>>

\* C10: every play_round notifies the strategy exactly once, on ties too:
\* with PredictiveStrategy the two histories, round_number and rounds_played
\* all equal the number of rounds played, and the last history entry is the
\* pair of actions just played.
C10_HistoryPerRound ==
    strategy = "PredictiveStrategy" =>
        /\ Len(context.human_moves) = calls
        /\ Len(context.computer_moves) = calls
        /\ context.round_number = calls
        /\ rounds_played = calls
        /\ calls > 0 =>
              /\ context.human_moves[calls] = human_action
              /\ context.computer_moves[calls] = computer_action

\* the second round was a tie and was recorded
C10_Witness ==
    /\ strategy = "PredictiveStrategy"
    /\ calls = 2
    /\ human_action = computer_action
    /\ Len(context.human_moves) = 2
    /\ context.human_moves[2] = context.computer_moves[2]

\* C11: within a round the computer's action does not depend on the human's
\* action of that round: the action it plays is one the strategy offers for
\* the history as it stood before the round, a set fixed before the human's
\* action of the round is known and hence the same whatever the human plays;
\* that action enters the history only with the update that ends the round.
C11_ComputerBlind ==
    [][calls' = calls + 1 =>
        /\ computer_action' \in
              ComputerPlayer_select_action(strategy, context.human_moves,
                                           get_valid_actions(victories))
        /\ strategy = "PredictiveStrategy" =>
              context'.human_moves = Append(context.human_moves, human_action')]_vars

\* third round after Rock, Paper: the human plays Paper, which makes Paper
\* the most frequent action, and the computer still answers Rock with Paper
C11_Witness ==
    /\ strategy = "PredictiveStrategy"
    /\ victories = victories_extended
    /\ calls = 3
    /\ context.human_moves = <<Rock, Paper, Paper>>
    /\ computer_action = Paper

\* C12: in a game session no action of one variant is looked up in, or
\* matched against an entry of, a table of another variant: every lookup
\* pairs an action with a table of its own enum class.
C12_NoCrossVariant ==
    \A l \in lookups : l[1] = l[2]

Occurrences(hm, a) == Cardinality({i \in 1..Len(hm) : hm[i] = a})

FirstIndex(hm, a) == CHOOSE i \in 1..Len(hm) :
    hm[i] = a /\ \A j \in 1..(i - 1) : hm[j] # a

\* the actions of a non-empty history that occur most often
MostFrequent(hm) ==
    {a \in Range(hm) : \A b \in Range(hm) : Occurrences(hm, b) <= Occurrences(hm, a)}

\* among them, the one that occurs first
EarliestMostFrequent(hm) ==
    CHOOSE a \in MostFrequent(hm) :
        \A b \in MostFrequent(hm) : FirstIndex(hm, a) <= FirstIndex(hm, b)

\* C13: when several human actions share the maximum count, the action the
\* predictive strategy takes as most frequent is the one among them whose
\* first occurrence in the history is earliest, and the action it returns is
\* the counter of that action whenever valid_actions holds one.
C13_TieBreak ==
    (strategy = "PredictiveStrategy" /\ context.human_moves # <<>>) =>
        /\ most_common(context.human_moves)
              = EarliestMostFrequent(context.human_moves)
        /\ (/\ computer_action # NoAction
            /\ FirstCounter(valid_actions,
                            EarliestMostFrequent(context.human_moves)) # {}) =>
              computer_action \in
                  FirstCounter(valid_actions,
                               EarliestMostFrequent(context.human_moves))

\* Paper and Rock are tied at one occurrence, Paper came first, and the
\* strategy has answered Paper with Scissors
C13_Witness ==
    /\ strategy = "PredictiveStrategy"
    /\ context.human_moves = <<Paper, Rock>>
    /\ valid_actions = ExtendedActions
    /\ computer_action = Scissors

\* the raw inputs that denote a member of valid_actions
Numerals(a) == {ToString(a), " " \o ToString(a) \o " "}

Acceptable(raw) == \E a \in Range(valid_actions) : raw \in Numerals(a)

\* C14: HumanPlayer.select_action never returns a value outside valid_actions
\* and never stops on a malformed input: as long as no input read denotes a
\* member of valid_actions it keeps asking, and it returns on the first input
\* that does, with the member that input denotes.
C14_PromptReturnsValid ==
    /\ prompt \in {"idle", "asking", "returned"}
    /\ prompt = "asking" =>
          /\ human_action = NoAction
          /\ \A i \in 1..Len(typed) : ~Acceptable(typed[i])
    /\ prompt = "returned" =>
          /\ human_action \in Range(valid_actions)
          /\ typed # <<>>
          /\ typed[Len(typed)] \in Numerals(human_action)
          /\ \A i \in 1..(Len(typed) - 1) : ~Acceptable(typed[i])

\* under the Classic rules a text and then Lizard's number were refused
\* before Scissors was accepted
C14_Witness ==
    /\ victories = victories_classic
    /\ typed = <<"abc", "3", " 2 ">>
    /\ prompt = "returned"
    /\ human_action = Scissors

\* C15: constructing a RuleSet from an empty table fails at construction
\* time, and play_round is never reached with an empty list of valid actions.
C15_EmptyRejected ==
    /\ (victories = <<>> /\ ruleset # "none") => ruleset # "constructed"
    /\ prompt # "idle" => valid_actions # <<>>

GameOver == is_game_over(mode, target, scores, rounds_played)

FinalResult ==
    /\ result = "Win" <=> scores[HumanName] > scores[ComputerName]
    /\ result = "Loss" <=> scores[HumanName] < scores[ComputerName]
    /\ result = "Draw" <=> scores[HumanName] = scores[ComputerName]

\* C16: play() runs play_round only while is_game_over() is false; once it
\* is true it stays true and scores and rounds_played never change again;
\* the result announced is Win iff the human score is the larger, Loss iff
\* it is the smaller, Draw iff the scores are equal.
C16_PlayStopsWhenOver ==
    /\ [](pc = "over" => GameOver /\ FinalResult)
    /\ [][/\ calls' # calls => ~GameOver
          /\ GameOver =>
                /\ is_game_over(mode', target', scores', rounds_played')
                /\ scores' = scores
                /\ rounds_played' = rounds_played
                /\ calls' = calls]_vars

\* a fixed game of three rounds ended in a draw
C16_Witness ==
    /\ mode = "fixed"
    /\ target = 3
    /\ pc = "over"
    /\ rounds_played = 3
    /\ scores[HumanName] = 1
    /\ scores[ComputerName] = 1
    /\ result = "Draw"

\* the positions of valid_actions whose action lists a in the Extended table
CounterPositions(va, a) ==
    {i \in 1..Len(va) : \E k \in 1..Len(victories_extended) :
        /\ victories_extended[k][1] = va[i]
        /\ a \in Range(victories_extended[k][2])}

\* what C17 lets select_action return for the history hm and the list va
C17_Allowed(hm, va) ==
    IF hm = <<>> THEN Range(va)
    ELSE LET ps == CounterPositions(va, EarliestMostFrequent(hm))
         IN  IF ps = {} THEN Range(va)
             ELSE {va[CHOOSE i \in ps : \A j \in ps : i <= j]}

\* C17: PredictiveStrategy.select_action may return any element of
\* valid_actions when the history is empty; otherwise it returns the first
\* action of valid_actions whose entry in the Extended table holds the most
\* frequent human action, whatever list it is given; only when no valid
\* action has such an entry it may return any element of valid_actions.
C17_PredictiveSelect ==
    strategy = "PredictiveStrategy" =>
        /\ PredictiveStrategy_select_action(context.human_moves, valid_actions)
              = C17_Allowed(context.human_moves, valid_actions)
        /\ computer_action # NoAction =>
              computer_action \in C17_Allowed(context.human_moves, valid_actions)

\* with the Classic actions and the history Lizard, Lizard the strategy has
\* answered Rock, which the Extended table alone makes a counter of Lizard
C17_Witness ==
    /\ strategy = "PredictiveStrategy"
    /\ context.human_moves = <<Lizard, Lizard>>
    /\ valid_actions = <<Rock, Paper, Scissors>>
    /\ computer_action = Rock

\* C18: in first_to mode with a target N >= 1 no score ever exceeds N, and
\* when play() ends exactly one player's score is N, the other's is below N
\* and the result is not a Draw.
C18_FirstToWinner ==
    (mode = "first_to" /\ target >= 1) =>
        /\ \A n \in DOMAIN scores : scores[n] <= target
        /\ pc = "over" =>
              /\ Cardinality({n \in DOMAIN scores : scores[n] = target}) = 1
              /\ result \in {"Win", "Loss"}
              /\ result = "Win" <=> scores[HumanName] = target

\* first to 2 lost by the human with one win
C18_Witness ==
    /\ mode = "first_to"
    /\ target = 2
    /\ pc = "over"
    /\ scores[HumanName] = 1
    /\ scores[ComputerName] = 2
    /\ result = "Loss"

\* C19: in each shipped variant, for every non-empty history of the
\* variant's human actions, the action the predictive strategy returns
\* defeats the most frequent human action under the rule set in play,
\* although it is looked up in the Extended table; the loop always finds a
\* counter, so the random fallback after it is not reached.
C19_CounterDefeatsInPlay ==
    [][(/\ calls' = calls + 1
        /\ strategy = "PredictiveStrategy"
        /\ context.human_moves # <<>>) =>
          LET mc == EarliestMostFrequent(context.human_moves)
          IN  /\ defeats(victories, computer_action', mc)
              /\ FirstCounter(get_valid_actions(victories), mc) # {}
              /\ FirstCounter(get_valid_actions(victories), mc)
                    = {computer_action'}]_vars

\* Fire-Water rules: after Fire, then Water twice, the computer answered
\* Water with Paper (Spock's counter in the Extended table)
C19_Witness ==
    /\ victories = victories_fire_water
    /\ strategy = "PredictiveStrategy"
    /\ calls = 4
    /\ SubSeq(context.human_moves, 1, 3) = <<Fire, Water, Water>>
    /\ computer_action = Paper
    /\ defeats(victories, Paper, Water)

AllTies == \A n \in DOMAIN scores : scores[n] = 0

\* the human and the computer can select the same action in the next round
TiePossible ==
    LET va == get_valid_actions(victories)
    IN  HumanPlayer_select_action(action_enum, va)
            \cap ComputerPlayer_select_action(strategy, context.human_moves, va)
                # {}

\* C20: in fixed mode with a target T >= 0 play() ends, after exactly T
\* rounds; in first_to mode with a target N >= 1 it need not end: a tied
\* round changes no score and leaves the game running, and after any number
\* of tied rounds a further tie can be played against either strategy, so
\* is_game_over() can stay false for ever.
C20_Termination ==
    /\ [](mode = "fixed" /\ target >= 0 /\ pc = "over" => calls = target)
    /\ (mode = "fixed" /\ target >= 0) ~> (pc = "over" /\ calls = target)
    /\ []((mode = "first_to" /\ target >= 1 /\ AllTies) =>
              (pc = "loop" /\ ~GameOver /\ TiePossible))
    /\ [][(/\ mode = "first_to"
           /\ calls' = calls + 1
           /\ human_action' = computer_action') =>
              (scores' = scores /\ pc' = "loop")]_vars

\* first_to against the predictive computer: four rounds, all tied, and the
\* game is still running
C20_Witness ==
    /\ mode = "first_to"
    /\ target = 1
    /\ strategy = "PredictiveStrategy"
    /\ calls = 4
    /\ human_action = computer_action
    /\ AllTies
    /\ pc = "loop"
    /\ ~GameOver

====
